---- MODULE Spec2Model ----
(***************************************************************************)
(* SEV-SNP attestation reports (firmware/guest/types/snp.rs) and the guest *)
(* transport value objects (firmware/linux/guest/types.rs).                *)
(*                                                                         *)
(* Byte buffers are sequences over 0..255 (offset o is index o + 1).       *)
(* Unsigned integers of width W are bit vectors [0..W-1 -> {0,1}], bit 0   *)
(* the least significant one: 32- and 64-bit values keep their width and   *)
(* every bit of them stays addressable.                                    *)
(***************************************************************************)
EXTENDS Integers, Sequences, FiniteSets, TLC

VARIABLES
    raw,        \* the byte slice handed to the decoder
    call,       \* which decoder was called on it
    decoded,    \* what the decoder returned
    wire,       \* bincode::serialize of the decoded versioned report
    mbytes,     \* what measurable_bytes returned for the decoded report
    chain,      \* the certificate chain handed to verify, and its build
    ledger,     \* the signatures the platform keys have issued
    vout,       \* what verify returned for (chain, decoded report)
    good,       \* the slice that verified, as it was before it was tampered with
    flips,      \* how many times a verified slice was tampered with
    info,       \* the PlatformInfo wrapper the caller holds
    policy,     \* the GuestPolicy the caller holds
    select,     \* the GuestFieldSelect the caller holds
    derived_key,\* the DerivedKey the caller holds
    args,       \* the last call on a value object, with its inputs
    ret         \* what that call returned

vars == <<raw, call, decoded, wire, mbytes, chain, ledger, vout, good, flips,
          info, policy, select, derived_key, args, ret>>

verifyVars == <<chain, ledger, vout, good, flips>>

guestVars == <<info, policy, select, derived_key, args, ret>>

Byte == 0..255

Slice(b, off, len) == SubSeq(b, off + 1, off + len)

(***************************************************************************)
(* Integer encodings.                                                      *)
(***************************************************************************)

\* The bit vector of width w of the literal n (n < 2^31).
UInt(n, w) == [i \in 0..(w - 1) |-> IF i < 31 THEN (n \div (2 ^ i)) % 2 ELSE 0]

\* u32::from_le_bytes / bincode's fixed-width little-endian integer decoding:
\* byte k carries bits 8k .. 8k+7.
from_le_bytes(b) ==
    [i \in 0..(8 * Len(b) - 1) |-> (b[(i \div 8) + 1] \div (2 ^ (i % 8))) % 2]

\* bincode's fixed-width little-endian integer encoding into n bytes.
to_le_bytes(v, n) ==
    [j \in 1..n |->
        LET o == 8 * (j - 1) IN
        v[o] + 2 * v[o + 1] + 4 * v[o + 2] + 8 * v[o + 3] + 16 * v[o + 4]
             + 32 * v[o + 5] + 64 * v[o + 6] + 128 * v[o + 7]]

(***************************************************************************)
(* Wire layouts.  One entry per struct field, in declaration order, which  *)
(* is the order bincode reads and writes them in.                          *)
(***************************************************************************)

\* Size of the report buffer of the transport structure.
REPORT_SIZE == 1184

\* measurable_bytes[..0x2a0]
MEASURABLE_LEN == 672

\* TcbVersion (crate::firmware::host) is a 64-bit value on the wire.
TcbVersionSize == 8

\* Signature (crate::certs::snp::ecdsa) fills [0x2A0, end of structure) with
\* its r and s components, each half of it.
SignatureSize == REPORT_SIZE - MEASURABLE_LEN

SignatureComponentSize == SignatureSize \div 2

F(name, size, kind) == [name |-> name, size |-> size, kind |-> kind]

LayoutHead ==
    << F("version", 4, "uint"), F("guest_svn", 4, "uint"), F("policy", 8, "uint"),
       F("family_id", 16, "bytes"), F("image_id", 16, "bytes"),
       F("vmpl", 4, "uint"), F("sig_algo", 4, "uint"),
       F("current_tcb", TcbVersionSize, "uint"), F("plat_info", 8, "uint"),
       F("key_info", 4, "uint"), F("_reserved_0", 4, "uint"),
       F("report_data", 64, "bytes"), F("measurement", 48, "bytes"),
       F("host_data", 32, "bytes"), F("id_key_digest", 48, "bytes"),
       F("author_key_digest", 48, "bytes"), F("report_id", 32, "bytes"),
       F("report_id_ma", 32, "bytes"), F("reported_tcb", TcbVersionSize, "uint") >>

LayoutTail ==
    << F("chip_id", 64, "bytes"), F("committed_tcb", TcbVersionSize, "uint"),
       F("current_build", 1, "u8"), F("current_minor", 1, "u8"),
       F("current_major", 1, "u8"), F("_reserved_2", 1, "u8"),
       F("committed_build", 1, "u8"), F("committed_minor", 1, "u8"),
       F("committed_major", 1, "u8"), F("_reserved_3", 1, "u8"),
       F("launch_tcb", TcbVersionSize, "uint"), F("_reserved_4", 168, "bytes"),
       F("signature", SignatureSize, "sig") >>

\* struct AttestationReportV2
LayoutV2 == LayoutHead \o << F("_reserved_1", 24, "bytes") >> \o LayoutTail

\* A V3 that adds the CPUID bytes in front of the whole reserved span.
LayoutV3_span_kept ==
    LayoutHead
    \o << F("cpuid_fam_id", 1, "u8"), F("cpuid_mod_id", 1, "u8"),
          F("cpuid_step", 1, "u8"), F("_reserved_1", 24, "bytes") >>
    \o LayoutTail

\* struct AttestationReportV3
LayoutV3 ==
    LayoutHead
    \o << F("cpuid_fam_id", 1, "u8"), F("cpuid_mod_id", 1, "u8"),
          F("cpuid_step", 1, "u8"), F("_reserved_1", 21, "bytes") >>
    \o LayoutTail

LayoutOf(variant) == IF variant = "V2" THEN LayoutV2 ELSE LayoutV3

RECURSIVE OffsetOf(_, _)
\* Byte offset of the i-th field: the sizes of the fields before it.
OffsetOf(layout, i) ==
    IF i = 1 THEN 0 ELSE OffsetOf(layout, i - 1) + layout[i - 1].size

StructSize(layout) == OffsetOf(layout, Len(layout) + 1)

FieldNames(layout) == {layout[i].name : i \in 1..Len(layout)}

FieldIndex(layout, name) == CHOOSE i \in 1..Len(layout) : layout[i].name = name

(***************************************************************************)
(* bincode (fixed-width integers, little endian, trailing bytes allowed).  *)
(***************************************************************************)

\* Signature: r then s.
Signature_decode(b) ==
    [r |-> Slice(b, 0, SignatureComponentSize),
     s |-> Slice(b, SignatureComponentSize, SignatureComponentSize)]

Signature_encode(sig) == sig.r \o sig.s

DecodeField(kind, b) ==
    CASE kind = "uint"  -> from_le_bytes(b)
      [] kind = "u8"    -> b[1]
      [] kind = "bytes" -> b
      [] kind = "sig"   -> Signature_decode(b)

EncodeField(kind, v, size) ==
    CASE kind = "uint"  -> to_le_bytes(v, size)
      [] kind = "u8"    -> << v >>
      [] kind = "bytes" -> v
      [] kind = "sig"   -> Signature_encode(v)

\* Zero-filling reader: input that ends early is read as zeros.
bincode_deserialize_zero_fill(layout, bytes) ==
    LET padded == [i \in 1..StructSize(layout) |->
                     IF i <= Len(bytes) THEN bytes[i] ELSE 0] IN
    [ok |-> TRUE,
     val |-> [n \in FieldNames(layout) |->
                LET i == FieldIndex(layout, n) IN
                DecodeField(layout[i].kind,
                            Slice(padded, OffsetOf(layout, i), layout[i].size))]]

\* Strict reader: input left over is an error too.
bincode_deserialize_reject_trailing(layout, bytes) ==
    IF Len(bytes) # StructSize(layout)
    THEN [ok |-> FALSE, err |-> "BincodeError"]
    ELSE bincode_deserialize_zero_fill(layout, bytes)

\* bincode::deserialize into a struct: the fields are read one after the
\* other; running out of input is an error, input left over is not.
bincode_deserialize(layout, bytes) ==
    IF Len(bytes) < StructSize(layout)
    THEN [ok |-> FALSE, err |-> "BincodeError"]
    ELSE [ok |-> TRUE,
          val |-> [n \in FieldNames(layout) |->
                     LET i == FieldIndex(layout, n) IN
                     DecodeField(layout[i].kind,
                                 Slice(bytes, OffsetOf(layout, i), layout[i].size))]]

RECURSIVE SerializeFrom(_, _, _)
SerializeFrom(layout, val, i) ==
    IF i > Len(layout) THEN << >>
    ELSE EncodeField(layout[i].kind, val[layout[i].name], layout[i].size)
         \o SerializeFrom(layout, val, i + 1)

\* bincode::serialize of a struct: its fields, in order, nothing in between.
bincode_serialize(layout, val) == SerializeFrom(layout, val, 1)

(***************************************************************************)
(* Decoding.  A result is [tag |-> "Ok", ...], [tag |-> "Err", ...] or,    *)
(* when the call does not return, [tag |-> "Panic"].                       *)
(***************************************************************************)

None == [tag |-> "None"]

Panic == [tag |-> "Panic"]

\* impl TryFrom<&[u8]> for AttestationReportV2
AttestationReportV2_try_from(bytes) ==
    LET d == bincode_deserialize(LayoutV2, bytes) IN
    IF d.ok
    THEN [tag |-> "Ok", facade |-> FALSE, variant |-> "V2", report |-> d.val]
    ELSE [tag |-> "Err", err |-> d.err]

\* impl TryFrom<&[u8]> for AttestationReportV3
AttestationReportV3_try_from(bytes) ==
    LET d == bincode_deserialize(LayoutV3, bytes) IN
    IF d.ok
    THEN [tag |-> "Ok", facade |-> FALSE, variant |-> "V3", report |-> d.val]
    ELSE [tag |-> "Err", err |-> d.err]

\* AttestationReport::V2(..) / AttestationReport::V3(..)
Wrap(r) == IF r.tag = "Ok" THEN [r EXCEPT !.facade = TRUE] ELSE r

\* A dispatcher that looks at the first byte only.
AttestationReport_try_from_first_byte(raw_report) ==
    IF Len(raw_report) < 4 THEN Panic
    ELSE CASE raw_report[1] = 2 -> Wrap(AttestationReportV2_try_from(raw_report))
           [] raw_report[1] = 3 -> Wrap(AttestationReportV3_try_from(raw_report))
           [] OTHER -> [tag |-> "Err", err |-> "UnsupportedReportVersion",
                        version |-> from_le_bytes(Slice(raw_report, 0, 4))]

\* A dispatcher that takes every version from 3 on for a V3 report.
AttestationReport_try_from_v3_onwards(raw_report) ==
    IF Len(raw_report) < 4 THEN Panic
    ELSE LET version == from_le_bytes(Slice(raw_report, 0, 4)) IN
         CASE version = UInt(2, 32) -> Wrap(AttestationReportV2_try_from(raw_report))
           [] version \in {UInt(0, 32), UInt(1, 32)} ->
                [tag |-> "Err", err |-> "UnsupportedReportVersion",
                 version |-> version]
           [] OTHER -> Wrap(AttestationReportV3_try_from(raw_report))

\* impl TryFrom<&[u8]> for AttestationReport.  raw_report[0] .. raw_report[3]
\* are indexed before anything else is looked at.
AttestationReport_try_from(raw_report) ==
    IF Len(raw_report) < 4 THEN Panic
    ELSE LET version == from_le_bytes(Slice(raw_report, 0, 4)) IN
         CASE version = UInt(2, 32) -> Wrap(AttestationReportV2_try_from(raw_report))
           [] version = UInt(3, 32) -> Wrap(AttestationReportV3_try_from(raw_report))
           [] OTHER -> [tag |-> "Err", err |-> "UnsupportedReportVersion",
                        version |-> version]

\* A conversion that hands out the stored value.
GuestPolicy_into_u64_stored(value) == value

\* impl From<GuestPolicy> for u64: bit 17 is set in the result.
GuestPolicy_into_u64(value) == [value EXCEPT ![17] = 1]

\* A serializer that writes the policy through its u64 conversion.
Versioned_serialize_policy_as_u64(variant, report) ==
    bincode_serialize(LayoutOf(variant),
                      [report EXCEPT !.policy = GuestPolicy_into_u64(@)])

\* A serializer that writes the policy with its reserved bits 25..63 cleared.
Versioned_serialize_policy_canonical(variant, report) ==
    bincode_serialize(LayoutOf(variant),
                      [report EXCEPT !.policy =
                          [i \in 0..63 |-> IF i > 24 THEN 0 ELSE @[i]]])

\* bincode::serialize(&AttestationReportV2) / (&AttestationReportV3): the
\* derived Serialize writes every field as stored.
Versioned_serialize(variant, report) == bincode_serialize(LayoutOf(variant), report)

\* bincode::serialize(&AttestationReport): a derived enum is written as its
\* variant index (u32) followed by the variant's content.
Enum_serialize(variant, report) ==
    to_le_bytes(UInt(IF variant = "V2" THEN 0 ELSE 1, 32), 4)
    \o Versioned_serialize(variant, report)

\* bincode::serialize(self) for the Self of an Attestable.
Self_serialize(self) ==
    IF self.facade THEN Enum_serialize(self.variant, self.report)
    ELSE Versioned_serialize(self.variant, self.report)

\* A measurable_bytes that keeps the whole serialization.
Attestable_measurable_bytes_whole(self) ==
    [tag |-> "Ok", bytes |-> Self_serialize(self)]

\* Attestable::measurable_bytes, the provided method: serialize self, keep
\* [..0x2a0].
Attestable_measurable_bytes(self) ==
    LET bytes == Self_serialize(self) IN
    IF Len(bytes) < MEASURABLE_LEN THEN Panic
    ELSE [tag |-> "Ok", bytes |-> Slice(bytes, 0, MEASURABLE_LEN)]

\* A facade that takes the provided method on the enum itself, so that the
\* variant index leads the bytes.
AttestationReport_measurable_bytes_provided(self) ==
    Attestable_measurable_bytes(self)

\* impl Attestable for AttestationReport: measurable_bytes of the wrapped
\* versioned report.
AttestationReport_measurable_bytes(self) ==
    Attestable_measurable_bytes([self EXCEPT !.facade = FALSE])

\* self.measurable_bytes() for whichever Attestable self is.
measurable_bytes(self) ==
    IF self.facade THEN AttestationReport_measurable_bytes(self)
    ELSE Attestable_measurable_bytes(self)

(***************************************************************************)
(* Verification.  The certificate chain, the signature conversion and the  *)
(* two primitives are collaborators of verify; what they are taken to do   *)
(* is stated with each.  A chain is                                        *)
(*   [valid, vcek, key_ok, primitive_ok, feature]:                         *)
(* whether chain validation succeeds, the key pair the VCEK certifies,     *)
(* whether its public key parses, whether the ECDSA primitive runs without *)
(* an internal error, and the crate feature verify was built with.         *)
(***************************************************************************)

Ok(v) == [ok |-> TRUE, val |-> v]

Err(e) == [ok |-> FALSE, err |-> e]

\* Chain::verify: the VCEK of a chain that validates, an error otherwise.
Chain_verify(c) == IF c.valid THEN Ok(c) ELSE Err("ChainError")

\* EcdsaSig::try_from(&Signature) / p384::ecdsa::Signature::try_from: the
\* pair (r, s); a zero component is no signature encoding.
EcdsaSig_try_from(signature) ==
    IF \/ \A i \in 1..Len(signature.r) : signature.r[i] = 0
       \/ \A i \in 1..Len(signature.s) : signature.s[i] = 0
    THEN Err("MalformedSignature")
    ELSE Ok(signature)

\* SHA-384, taken to be collision-free: the digest determines its input.
Sha384(bytes) == [sha384 |-> bytes]

\* vcek.public_key()?.ec_key()? / VerifyingKey::from_sec1_bytes
public_key(vcek) == IF vcek.key_ok THEN Ok(vcek.vcek) ELSE Err("MalformedKey")

\* The n-th signature a platform key issues: r and s both encode n.
SignatureOf(n) ==
    [r |-> [i \in 1..SignatureComponentSize |-> IF i = 1 THEN n ELSE 0],
     s |-> [i \in 1..SignatureComponentSize |-> IF i = 1 THEN n ELSE 0]]

\* ECDSA-P384 verification, taken to be unforgeable: (r, s) is valid for a
\* digest under a key exactly when it is the signature that key's owner
\* issued for that digest.
ecdsa_verify(sig, digest, key) ==
    \E n \in 1..Len(ledger) :
        ledger[n] = [key |-> key, digest |-> digest] /\ sig = SignatureOf(n)

\* sig.verify(&base_digest, &ec): the primitive's answer, or its own error.
EcdsaSig_verify(c, sig, digest, key) ==
    IF c.primitive_ok THEN Ok(ecdsa_verify(sig, digest, key))
    ELSE Err("PrimitiveError")

Verdict(tag, err, digest) == [tag |-> tag, err |-> err, digest |-> digest]

\* A verify that does not look at the primitive's answer.
verify_openssl_unchecked(c, self) ==
    LET vcek == Chain_verify(c) IN
    IF ~vcek.ok THEN Verdict("Err", vcek.err, None)
    ELSE LET sig == EcdsaSig_try_from(self.report.signature) IN
    IF ~sig.ok THEN Verdict("Err", sig.err, None)
    ELSE LET digest == Sha384(measurable_bytes(self).bytes)
             ec == public_key(vcek.val) IN
    IF ~ec.ok THEN Verdict("Err", ec.err, digest)
    ELSE LET signed == EcdsaSig_verify(c, sig.val, digest, ec.val) IN
    IF ~signed.ok THEN Verdict("Err", signed.err, digest)
    ELSE Verdict("Ok", "", digest)

\* A verify that reports every failure as the one error it builds itself.
verify_openssl_one_error(c, self) ==
    LET v == verify_openssl_unchecked(c, self) IN
    IF v.tag = "Ok" /\ EcdsaSig_verify(c, self.report.signature, v.digest, c.vcek) = Ok(TRUE)
    THEN v
    ELSE Verdict("Err", "SignatureInvalid", v.digest)

\* A verify that parses the signature and hashes the report before it
\* validates the chain.
verify_openssl_signature_first(c, self) ==
    LET sig == EcdsaSig_try_from(self.report.signature) IN
    IF ~sig.ok THEN Verdict("Err", sig.err, None)
    ELSE LET digest == Sha384(measurable_bytes(self).bytes)
             vcek == Chain_verify(c) IN
    IF ~vcek.ok THEN Verdict("Err", vcek.err, digest)
    ELSE LET ec == public_key(vcek.val) IN
    IF ~ec.ok THEN Verdict("Err", ec.err, digest)
    ELSE LET signed == EcdsaSig_verify(c, sig.val, digest, ec.val) IN
    IF ~signed.ok THEN Verdict("Err", signed.err, digest)
    ELSE IF signed.val THEN Verdict("Ok", "", digest)
    ELSE Verdict("Err", "SignatureInvalid", digest)

\* impl Verifiable for (&Chain, &T), feature openssl.  Each `?` returns the
\* error of its step; the ghost field digest is the base_digest computed, if
\* the call got that far.
verify_openssl(c, self) ==
    LET vcek == Chain_verify(c) IN
    IF ~vcek.ok THEN Verdict("Err", vcek.err, None)
    ELSE LET sig == EcdsaSig_try_from(self.report.signature) IN
    IF ~sig.ok THEN Verdict("Err", sig.err, None)
    ELSE LET mb == measurable_bytes(self) IN
    IF mb.tag # "Ok" THEN Verdict(mb.tag, "SerializeError", None)
    ELSE LET digest == Sha384(mb.bytes)
             ec == public_key(vcek.val) IN
    IF ~ec.ok THEN Verdict("Err", ec.err, digest)
    ELSE LET signed == EcdsaSig_verify(c, sig.val, digest, ec.val) IN
    IF ~signed.ok THEN Verdict("Err", signed.err, digest)
    ELSE IF signed.val THEN Verdict("Ok", "", digest)
    ELSE Verdict("Err", "SignatureInvalid", digest)

\* A verify that drops the error of verify_digest.
verify_nossl_unchecked(c, self) ==
    LET vcek == Chain_verify(c) IN
    IF ~vcek.ok THEN Verdict("Err", vcek.err, None)
    ELSE LET sig == EcdsaSig_try_from(self.report.signature) IN
    IF ~sig.ok THEN Verdict("Err", sig.err, None)
    ELSE LET digest == Sha384(measurable_bytes(self).bytes)
             verifying_key == public_key(vcek.val) IN
    IF ~verifying_key.ok THEN Verdict("Err", verifying_key.err, digest)
    ELSE Verdict("Ok", "", digest)

\* impl Verifiable for (&Chain, &T), feature crypto_nossl.  verify_digest
\* has one error for every signature it does not accept.
verify_nossl(c, self) ==
    LET vcek == Chain_verify(c) IN
    IF ~vcek.ok THEN Verdict("Err", vcek.err, None)
    ELSE LET sig == EcdsaSig_try_from(self.report.signature) IN
    IF ~sig.ok THEN Verdict("Err", sig.err, None)
    ELSE LET mb == measurable_bytes(self) IN
    IF mb.tag # "Ok" THEN Verdict(mb.tag, "SerializeError", None)
    ELSE LET digest == Sha384(mb.bytes)
             verifying_key == public_key(vcek.val) IN
    IF ~verifying_key.ok THEN Verdict("Err", verifying_key.err, digest)
    ELSE LET signed == EcdsaSig_verify(c, sig.val, digest, verifying_key.val) IN
    IF signed.ok /\ signed.val THEN Verdict("Ok", "", digest)
    ELSE Verdict("Err", "SignatureInvalid", digest)

\* A verify that stops at the chain: a report is accepted as soon as the
\* chain validates.
verify_chain_only(c, self) ==
    LET vcek == Chain_verify(c) IN
    IF ~vcek.ok THEN Verdict("Err", vcek.err, None)
    ELSE Verdict("Ok", "", Sha384(measurable_bytes(self).bytes))

\* A verify that remembers the call before it: after a failure it accepts
\* whatever it could hash.
verify_retry_accepts(c, self) ==
    LET v == IF c.feature = "openssl" THEN verify_openssl(c, self)
             ELSE verify_nossl(c, self)
    IN  IF vout # None /\ vout.tag = "Err" /\ v.digest # None
        THEN Verdict("Ok", "", v.digest)
        ELSE v

\* (chain, report).verify() of the build in use
verify(c, self) ==
    IF c.feature = "openssl" THEN verify_openssl(c, self) ELSE verify_nossl(c, self)

(***************************************************************************)
(* Bit fields.  The structs declared with bitfield! keep one u64; a getter *)
(* declared `name, _: msb, lsb` is bit_range(msb, lsb) and a setter is     *)
(* set_bit_range(msb, lsb, value), both with u64 values.                   *)
(***************************************************************************)

\* v << n, v >> n, &, |, ! on an unsigned integer.
Shl(v, n) == [i \in DOMAIN v |-> IF i >= n THEN v[i - n] ELSE 0]

Shr(v, n) == [i \in DOMAIN v |-> IF (i + n) \in DOMAIN v THEN v[i + n] ELSE 0]

BitAnd(a, b) == [i \in DOMAIN a |-> a[i] * b[i]]

BitOr(a, b) == [i \in DOMAIN a |-> IF a[i] + b[i] > 0 THEN 1 ELSE 0]

BitNot(a) == [i \in DOMAIN a |-> 1 - a[i]]

\* A getter that reads one bit too many.
bit_range_off_by_one(v, msb, lsb) == Shr(Shl(v, 64 - msb - 2), 64 - msb - 2 + lsb)

\* The getter of a range: the bits lsb..msb moved down to bit 0.
bit_range(v, msb, lsb) ==
    LET bit_len == 64
        width == msb - lsb + 1
        result == Shr(Shl(v, bit_len - msb - 1), bit_len - msb - 1 + lsb)
    IN  Shr(Shl(result, bit_len - width), bit_len - width)

\* A setter that does not mask the value.
set_bit_range_unmasked(v, msb, lsb, value) ==
    LET mask == Shl(Shr(Shl(BitNot(UInt(0, 64)), 64 - msb - 1), 64 - msb - 1 + lsb), lsb)
    IN  BitOr(BitAnd(v, BitNot(mask)), Shl(value, lsb))

\* A setter whose mask has no upper end: the range is taken to reach bit 63.
set_bit_range_open_mask(v, msb, lsb, value) ==
    LET mask == Shl(BitNot(UInt(0, 64)), lsb)
    IN  BitOr(BitAnd(v, BitNot(mask)), BitAnd(Shl(value, lsb), mask))

\* The setter of a range: clear the range, then or in the value, masked.
set_bit_range(v, msb, lsb, value) ==
    LET bit_len == 64
        mask == Shl(Shr(Shl(BitNot(UInt(0, 64)), bit_len - msb - 1),
                        bit_len - msb - 1 + lsb), lsb)
    IN  BitOr(BitAnd(v, BitNot(mask)), BitAnd(Shl(value, lsb), mask))

\* AttestationReportError::UnsupportedField(name)
UnsupportedField(name) == [kind |-> "UnsupportedField", name |-> name]

\* The ranges of PlatformInfoV1 and PlatformInfoV2 that have a public getter.
PlatformInfoV1_ranges ==
    [smt_enabled |-> <<0, 0>>, tsme_enabled |-> <<1, 1>>, ecc_enabled |-> <<2, 2>>,
     rapl_disabled |-> <<3, 3>>, ciphertext_hiding_enabled |-> <<4, 4>>]

PlatformInfoV2_ranges ==
    [smt_enabled |-> <<0, 0>>, tsme_enabled |-> <<1, 1>>, ecc_enabled |-> <<2, 2>>,
     rapl_disabled |-> <<3, 3>>, ciphertext_hiding_enabled |-> <<4, 4>>,
     alias_check_complete |-> <<5, 5>>]

PlatformInfoV1_get(field, name) ==
    bit_range(field, PlatformInfoV1_ranges[name][1], PlatformInfoV1_ranges[name][2])

PlatformInfoV2_get(field, name) ==
    bit_range(field, PlatformInfoV2_ranges[name][1], PlatformInfoV2_ranges[name][2])

\* enum PlatformInfo { V1(PlatformInfoV1), V2(PlatformInfoV2) }
PlatformInfo_V1(field) == [tag |-> "V1", field |-> field]

PlatformInfo_V2(field) == [tag |-> "V2", field |-> field]

\* The methods of PlatformInfo that every version answers, and the getter
\* each of them calls.
PlatformInfo_methods ==
    [smt_enabled |-> "smt_enabled", tsme_enabled |-> "tsme_enabled",
     ecc_enabled |-> "ecc_enabled", rapl_disabled |-> "rapl_disabled",
     cypertext_hiding_enabled |-> "ciphertext_hiding_enabled"]

\* PlatformInfo::smt_enabled .. PlatformInfo::cypertext_hiding_enabled
PlatformInfo_get(self, method) ==
    IF self.tag = "V1" THEN PlatformInfoV1_get(self.field, PlatformInfo_methods[method])
    ELSE PlatformInfoV2_get(self.field, PlatformInfo_methods[method])

\* An alias_check_complete that reads the bit of a V1 field as well.
PlatformInfo_alias_check_complete_any(self) ==
    Ok(PlatformInfoV2_get(self.field, "alias_check_complete"))

\* PlatformInfo::alias_check_complete
PlatformInfo_alias_check_complete(self) ==
    IF self.tag = "V1" THEN Err(UnsupportedField("Alias Check Complete"))
    ELSE Ok(PlatformInfoV2_get(self.field, "alias_check_complete"))

\* A plat_info that wraps every report's field as V1.
AttestationReport_plat_info_v1(self) == PlatformInfo_V1(self.report.plat_info)

\* AttestationReport::plat_info
AttestationReport_plat_info(self) ==
    IF self.variant = "V2" THEN PlatformInfo_V1(self.report.plat_info)
    ELSE PlatformInfo_V2(self.report.plat_info)

\* A cpuid that reads the bytes at the V3 offsets of any report.
AttestationReport_cpuid_any(self) ==
    IF self.variant = "V2"
    THEN Ok(<<self.report["_reserved_1"][1], self.report["_reserved_1"][2],
              self.report["_reserved_1"][3]>>)
    ELSE Ok(<<self.report.cpuid_fam_id, self.report.cpuid_mod_id,
              self.report.cpuid_step>>)

\* AttestationReport::cpuid
AttestationReport_cpuid(self) ==
    IF self.variant = "V2" THEN Err(UnsupportedField("cpuid information"))
    ELSE Ok(<<self.report.cpuid_fam_id, self.report.cpuid_mod_id,
              self.report.cpuid_step>>)

\* The accessors of the facade that return one field of the wrapped report,
\* and the field each returns.
AttestationReport_accessors ==
    [version |-> "version", guest_svn |-> "guest_svn", policy |-> "policy",
     family_id |-> "family_id", image_id |-> "image_id", vmpl |-> "vmpl",
     sig_algo |-> "sig_algo", current_tcb |-> "current_tcb",
     key_info |-> "key_info", report_data |-> "report_data",
     measurement |-> "measurement", host_data |-> "host_data",
     id_key_digest |-> "id_key_digest",
     author_key_digest |-> "author_key_digest", report_id |-> "report_id",
     report_id_ma |-> "report_id_ma", reported_tcb |-> "reported_tcb",
     chip_id |-> "chip_id", commited_tcb |-> "committed_tcb",
     launch_tcb |-> "launch_tcb"]

\* AttestationReport::version .. AttestationReport::launch_tcb: the field of
\* the wrapped report, on either arm.
AttestationReport_get(self, method) ==
    self.report[AttestationReport_accessors[method]]

\* A current_version that returns the bytes in the order they are stored.
AttestationReport_current_version_as_stored(self) ==
    <<self.report.current_build, self.report.current_minor,
      self.report.current_major>>

\* AttestationReport::current_version
AttestationReport_current_version(self) ==
    <<self.report.current_major, self.report.current_minor,
      self.report.current_build>>

\* AttestationReport::commited_version
AttestationReport_commited_version(self) ==
    <<self.report.committed_major, self.report.committed_minor,
      self.report.committed_build>>

(***************************************************************************)
(* Inputs: byte slices of every interesting length, with every interesting *)
(* discriminant, over a body none of whose regions is left zero.           *)
(***************************************************************************)

\* Slices run up to MaxExtra bytes past the structure.
MaxExtra == 3

\* Bodies: the byte at offset o is (o * p) % 256 for p in 0..MaxPattern.
MaxPattern == 2

Discriminants ==
    { <<0, 0, 0, 0>>, <<1, 0, 0, 0>>, <<2, 0, 0, 0>>, <<3, 0, 0, 0>>,
      <<4, 0, 0, 0>>, <<255, 255, 255, 255>>, <<2, 0, 0, 1>>, <<3, 1, 0, 0>>,
      <<0, 2, 0, 0>> }

Lengths ==
    {0, 1, 2, 3, 4, 5, MEASURABLE_LEN, REPORT_SIZE - 1}
    \cup {REPORT_SIZE + k : k \in 0..MaxExtra}

MakeInput(p, d, n) ==
    [i \in 1..n |-> IF i <= 4 THEN d[i] ELSE ((i - 1) * p) % 256]

Inputs ==
    {MakeInput(p, d, n) : p \in 0..MaxPattern, d \in Discriminants, n \in Lengths}

Keys == {"vcek", "other"}

GoodChain(k, f) ==
    [valid |-> TRUE, vcek |-> k, key_ok |-> TRUE, primitive_ok |-> TRUE, feature |-> f]

\* Chains: one that validates to each key pair, and one for each way a step
\* of verify can fail, for the openssl build; for the crypto_nossl build,
\* one that validates and one whose primitive fails.
Chains ==
    {GoodChain(k, "openssl") : k \in Keys}
    \cup { [GoodChain("vcek", "openssl") EXCEPT !.valid = FALSE],
           [GoodChain("vcek", "openssl") EXCEPT !.key_ok = FALSE],
           [GoodChain("vcek", "openssl") EXCEPT !.primitive_ok = FALSE],
           GoodChain("vcek", "crypto_nossl"),
           [GoodChain("vcek", "crypto_nossl") EXCEPT !.primitive_ok = FALSE] }

\* No value object has been made and no call on one has been made.
GuestIdle ==
    /\ info = None
    /\ policy = None
    /\ select = None
    /\ derived_key = None
    /\ args = None
    /\ ret = None

Init ==
    /\ raw \in Inputs
    /\ call = "none"
    /\ decoded = None
    /\ wire = None
    /\ mbytes = None
    /\ chain = GoodChain("vcek", "openssl")
    /\ ledger = << >>
    /\ vout = None
    /\ good = None
    /\ flips = 0
    /\ GuestIdle

\* AttestationReport::try_from(raw)
Decode ==
    /\ call = "none"
    /\ call' = "AttestationReport"
    /\ decoded' = AttestationReport_try_from(raw)
    /\ UNCHANGED <<raw, wire, mbytes, verifyVars, guestVars>>

\* AttestationReportV2::try_from(raw)
DecodeV2 ==
    /\ call = "none"
    /\ call' = "AttestationReportV2"
    /\ decoded' = AttestationReportV2_try_from(raw)
    /\ UNCHANGED <<raw, wire, mbytes, verifyVars, guestVars>>

\* AttestationReportV3::try_from(raw)
DecodeV3 ==
    /\ call = "none"
    /\ call' = "AttestationReportV3"
    /\ decoded' = AttestationReportV3_try_from(raw)
    /\ UNCHANGED <<raw, wire, mbytes, verifyVars, guestVars>>

\* bincode::serialize of the versioned report the caller holds
Serialize ==
    /\ decoded.tag = "Ok"
    /\ wire = None
    /\ wire' = [tag |-> "Ok",
                bytes |-> Versioned_serialize(decoded.variant, decoded.report)]
    /\ UNCHANGED <<raw, call, decoded, mbytes, verifyVars, guestVars>>

\* report.measurable_bytes() on the report the caller holds
MeasurableBytes ==
    /\ decoded.tag = "Ok"
    /\ mbytes = None
    /\ mbytes' = measurable_bytes(decoded)
    /\ UNCHANGED <<raw, call, decoded, wire, verifyVars, guestVars>>

Next == Decode \/ DecodeV2 \/ DecodeV3 \/ Serialize \/ MeasurableBytes

Spec == Init /\ [][Next]_vars

(***************************************************************************)
(* Properties of the decoder.                                              *)
(***************************************************************************)

Discriminant == Slice(raw, 0, 4)

ValidDiscriminant == Len(raw) >= 4 /\ Discriminant \in {<<2, 0, 0, 0>>, <<3, 0, 0, 0>>}

\* C1: on a slice of at least the fixed size, AttestationReport::try_from
\* dispatches on the little-endian u32 at bytes 0..4: 2 gives the V2 variant,
\* 3 gives the V3 variant, any other value v gives UnsupportedReportVersion(v)
\* and no report.
C1_VersionDispatch ==
    (call = "AttestationReport" /\ Len(raw) >= REPORT_SIZE) =>
        /\ Discriminant = <<2, 0, 0, 0>> =>
              decoded.tag = "Ok" /\ decoded.facade /\ decoded.variant = "V2"
        /\ Discriminant = <<3, 0, 0, 0>> =>
              decoded.tag = "Ok" /\ decoded.facade /\ decoded.variant = "V3"
        /\ ~ValidDiscriminant =>
              /\ decoded.tag = "Err"
              /\ decoded.err = "UnsupportedReportVersion"
              /\ to_le_bytes(decoded.version, 4) = Discriminant
              /\ "report" \notin DOMAIN decoded

C1_Witness ==
    /\ call = "AttestationReport"
    /\ Len(raw) = REPORT_SIZE
    /\ Discriminant = <<2, 0, 0, 1>>
    /\ decoded.tag = "Err"

\* C2: a slice with discriminant 2 or 3 that is shorter than the fixed size
\* decodes to an error (bincode's end-of-input error), never to a report.
C2_TruncatedIsError ==
    (call # "none" /\ ValidDiscriminant /\ Len(raw) < REPORT_SIZE) =>
        /\ decoded.tag = "Err"
        /\ decoded.err = "BincodeError"
        /\ "report" \notin DOMAIN decoded

C2_Witness ==
    /\ call = "AttestationReport"
    /\ ValidDiscriminant
    /\ Len(raw) = REPORT_SIZE - 1
    /\ decoded.tag = "Err"

\* C3: decode is total: for a slice of any length, the empty slice and slices
\* of 1, 2 or 3 bytes included, AttestationReport::try_from returns a report
\* or an error value.
C3_DecodeTotal ==
    call = "AttestationReport" => decoded.tag \in {"Ok", "Err"}

DecodeBy(c, bytes) ==
    CASE c = "AttestationReport"   -> AttestationReport_try_from(bytes)
      [] c = "AttestationReportV2" -> AttestationReportV2_try_from(bytes)
      [] c = "AttestationReportV3" -> AttestationReportV3_try_from(bytes)

\* C4: bytes after the fixed size are ignored: decoding a validly-versioned
\* slice longer than the fixed size succeeds and gives what decoding its first
\* fixed-size bytes gives.
C4_TrailingBytesIgnored ==
    (call # "none" /\ ValidDiscriminant /\ Len(raw) > REPORT_SIZE) =>
        /\ decoded.tag = "Ok"
        /\ decoded = DecodeBy(call, Slice(raw, 0, REPORT_SIZE))

C4_Witness ==
    /\ call = "AttestationReport"
    /\ ValidDiscriminant
    /\ Len(raw) > REPORT_SIZE
    /\ raw[Len(raw)] # 0
    /\ decoded.tag = "Ok"

\* C5: serializing the decoded versioned report gives back the first
\* fixed-size bytes of the input, reserved regions and reserved bits of the
\* bit-fields included.
C5_RoundTrip ==
    wire # None =>
        /\ wire.tag = "Ok"
        /\ wire.bytes = Slice(raw, 0, REPORT_SIZE)

\* a round trip of an input whose policy has bit 17 clear and a reserved bit
\* (bit 26) set, and whose 168-byte reserved block is not zero
C5_Witness ==
    /\ call = "AttestationReport"
    /\ wire # None
    /\ decoded.report.policy[17] = 0
    /\ decoded.report.policy[26] = 1
    /\ \E i \in 1..168 : decoded.report["_reserved_4"][i] # 0

\* C6: measurable_bytes of a V2 report, of a V3 report and of the facade over
\* either succeeds with exactly 0x2A0 bytes, the serialization of the wrapped
\* versioned structure without its signature.
C6_MeasurableBytes ==
    mbytes # None =>
        /\ mbytes.tag = "Ok"
        /\ Len(mbytes.bytes) = 672
        /\ mbytes.bytes \o Signature_encode(decoded.report.signature)
              = Versioned_serialize(decoded.variant, decoded.report)

C6_Witness ==
    /\ mbytes # None
    /\ decoded.facade
    /\ decoded.variant = "V3"
    /\ mbytes.bytes[1] = 3

\* A slice with the signature region [0x2A0, 0x2A0 + 512) replaced by x.
WithSignature(bytes, x) ==
    [i \in 1..Len(bytes) |->
        IF i > MEASURABLE_LEN /\ i <= REPORT_SIZE THEN x[i - MEASURABLE_LEN]
        ELSE bytes[i]]

SignatureVariants ==
    { [i \in 1..SignatureSize |-> 0],
      [i \in 1..SignatureSize |-> 255],
      [i \in 1..SignatureSize |-> IF i = 1 THEN 1 ELSE 0],
      [i \in 1..SignatureSize |-> IF i = SignatureSize THEN 128 ELSE (i * 3) % 256] }

\* C7: the digest input does not depend on the signature: a report of the
\* same version that agrees with this one on every byte before 0x2A0 and
\* differs only from 0x2A0 on has the same measurable bytes, so the same
\* SHA-384 digest.
C7_SignatureIndependent ==
    (mbytes # None /\ mbytes.tag = "Ok") =>
        \A x \in SignatureVariants :
            LET other == DecodeBy(call, WithSignature(raw, x)) IN
            /\ other.tag = "Ok"
            /\ other.variant = decoded.variant
            /\ measurable_bytes(other) = mbytes
            /\ Sha384(measurable_bytes(other).bytes) = Sha384(mbytes.bytes)

\* measurable bytes were taken of a report whose signature is none of the
\* variants compared with
C7_Witness ==
    /\ mbytes # None
    /\ mbytes.tag = "Ok"
    /\ decoded.facade
    /\ \A x \in SignatureVariants : WithSignature(raw, x) # raw

(***************************************************************************)
(* Verification runs.  The platform firmware signs bytes 0 .. 0x29F of a   *)
(* report with the private key of one of the key pairs; the relying party  *)
(* decodes the slice and verifies the report against its chain; a slice    *)
(* that verified may then be tampered with, one bit at a time.             *)
(***************************************************************************)

\* Signatures issued in a run.
MaxSigned == 2

\* Bits flipped in a run.
MaxFlips == 1

\* Calls of verify repeated on a (chain, report) pair after the first.
MaxRetries == 2

\* <<byte offset, bit>> of the bits that get flipped: two in the version,
\* one in the measurement, the last measurable one, and bits in the first
\* and last bytes of the signature and in the first byte of s.
FlipPositions ==
    { <<0, 0>>, <<0, 2>>, <<191, 7>>, <<671, 7>>,
      <<672, 0>>, <<673, 5>>, <<928, 0>>, <<1183, 7>> }

FlipBit(bytes, off, bit) ==
    [bytes EXCEPT ![off + 1] =
        IF (@ \div (2 ^ bit)) % 2 = 1 THEN @ - 2 ^ bit ELSE @ + 2 ^ bit]

VerifyInit ==
    /\ raw \in {MakeInput(1, d, REPORT_SIZE) : d \in {<<2, 0, 0, 0>>, <<3, 0, 0, 0>>}}
    /\ call = "none"
    /\ decoded = None
    /\ wire = None
    /\ mbytes = None
    /\ chain \in Chains
    /\ ledger = << >>
    /\ vout = None
    /\ good = None
    /\ flips = 0
    /\ GuestIdle

\* The firmware signs the report in raw with the private key of k: the
\* signature covers bytes 0 to 0x29F and is written from 0x2A0 on.
FirmwareSign(k) ==
    LET entry == [key |-> k, digest |-> Sha384(Slice(raw, 0, MEASURABLE_LEN))]
        known == \E n \in 1..Len(ledger) : ledger[n] = entry
        n == IF known THEN CHOOSE m \in 1..Len(ledger) : ledger[m] = entry
             ELSE Len(ledger) + 1
    IN  /\ call = "none"
        /\ known \/ Len(ledger) < MaxSigned
        /\ ledger' = IF known THEN ledger ELSE Append(ledger, entry)
        /\ raw' = WithSignature(raw, Signature_encode(SignatureOf(n)))
        /\ raw' # raw
        /\ UNCHANGED <<call, decoded, wire, mbytes, chain, vout, good, flips, guestVars>>

\* (&chain, &report).verify() on the report the caller holds
Verify ==
    /\ decoded.tag = "Ok"
    /\ vout = None
    /\ vout' = verify(chain, decoded)
    /\ UNCHANGED <<raw, call, decoded, wire, mbytes, chain, ledger, good, flips, guestVars>>

\* The calls of verify made again on the pair the caller holds.
Retries == IF args = None THEN 0 ELSE args.calls

\* (&chain, &report).verify() once more on the same pair: verify takes both
\* by shared reference; ret keeps the outcome of the call before.
Reverify ==
    /\ decoded.tag = "Ok"
    /\ vout # None
    /\ Retries < MaxRetries
    /\ args' = [call |-> "verify", calls |-> Retries + 1]
    /\ ret' = vout
    /\ vout' = verify(chain, decoded)
    /\ UNCHANGED <<raw, call, decoded, wire, mbytes, chain, ledger, good, flips,
                   info, policy, select, derived_key>>

\* One bit of a slice whose report has just verified is flipped; good keeps
\* the slice as it verified and the digest verify computed for it.
Tamper(pos) ==
    /\ vout.tag = "Ok"
    /\ flips < MaxFlips
    /\ flips' = flips + 1
    /\ good' = [raw |-> raw, digest |-> vout.digest]
    /\ raw' = FlipBit(raw, pos[1], pos[2])
    /\ call' = "none"
    /\ decoded' = None
    /\ vout' = None
    /\ args' = None
    /\ ret' = None
    /\ UNCHANGED <<wire, mbytes, chain, ledger, info, policy, select, derived_key>>

VerifyNext ==
    \/ \E k \in Keys : FirmwareSign(k)
    \/ Decode
    \/ DecodeV2
    \/ DecodeV3
    \/ Verify
    \/ Reverify
    \/ \E pos \in FlipPositions : Tamper(pos)

VerifySpec == VerifyInit /\ [][VerifyNext]_vars

\* The primitive accepts the signature bytes of raw for the digest of the
\* first 0x2A0 bytes of raw under the key of the chain.
PrimitiveAccepts ==
    \E n \in 1..Len(ledger) :
        /\ ledger[n] = [key |-> chain.vcek, digest |-> Sha384(Slice(raw, 0, 672))]
        /\ Slice(raw, 672, 512) = Signature_encode(SignatureOf(n))

\* C8: verify returns success only when the chain validates, signature and
\* key parse, and the ECDSA primitive reports (r, s) valid under the chain's
\* key for the SHA-384 digest of the report's 672 measurable bytes; in every
\* other case it returns an error.
C8_NoFalseAccept ==
    vout # None =>
        /\ vout.tag \in {"Ok", "Err"}
        /\ vout.tag = "Ok" <=>
              /\ chain.valid
              /\ chain.key_ok
              /\ chain.primitive_ok
              /\ PrimitiveAccepts

C8_Witness == vout # None /\ vout.tag = "Ok" /\ decoded.facade

\* The offsets at which two slices of the same length differ.
DiffOffsets(a, b) == {i \in 0..(Len(a) - 1) : a[i + 1] # b[i + 1]}

\* b is a with exactly one bit flipped, in a byte at an offset in lo..hi.
OneBitFlipped(a, b, lo, hi) ==
    /\ Len(a) = Len(b)
    /\ LET D == DiffOffsets(a, b) IN
       /\ Cardinality(D) = 1
       /\ \A o \in D :
             /\ lo <= o
             /\ o <= hi
             /\ \E k \in 0..7 : b[o + 1] = FlipBit(a, o, k)[o + 1]

\* C9: once a report verified against a chain, the report with any single
\* bit of the measurable region [0, 0x2A0) flipped fails verification against
\* that chain, and the outcome is the invalid-signature one.
C9_MeasurableBitFlipRejected ==
    (vout # None /\ good # None /\ OneBitFlipped(good.raw, raw, 0, 671)) =>
        vout.tag = "Err" /\ vout.err = "SignatureInvalid"

C9_Witness ==
    /\ vout # None
    /\ good # None
    /\ OneBitFlipped(good.raw, raw, 191, 191)
    /\ decoded.facade

MaxInfoBit == 5

\* The u64 whose set bits are those in S.
BitsOf(S) == [i \in 0..63 |-> IF i \in S THEN 1 ELSE 0]

PlatformValues ==
    {BitsOf(S \cup H) : S \in SUBSET (0..MaxInfoBit), H \in {{}, {63}}}

\* bytes with the field called name of the layout replaced by x
WithField(bytes, layout, name, x) ==
    LET off == OffsetOf(layout, FieldIndex(layout, name)) IN
    [i \in 1..Len(bytes) |->
        IF i > off /\ i <= off + Len(x) THEN x[i - off] ELSE bytes[i]]

AccessInit ==
    /\ raw \in {WithField(MakeInput(p, d, REPORT_SIZE), LayoutV2, "plat_info",
                          to_le_bytes(v, 8)) :
                    p \in 1..MaxPattern,
                    d \in {<<2, 0, 0, 0>>, <<3, 0, 0, 0>>},
                    v \in PlatformValues}
    /\ call = "none"
    /\ decoded = None
    /\ wire = None
    /\ mbytes = None
    /\ chain = GoodChain("vcek", "openssl")
    /\ ledger = << >>
    /\ vout = None
    /\ good = None
    /\ flips = 0
    /\ GuestIdle

\* report.cpuid()
Cpuid ==
    /\ decoded.tag = "Ok"
    /\ args' = [call |-> "cpuid"]
    /\ ret' = AttestationReport_cpuid(decoded)
    /\ UNCHANGED <<raw, call, decoded, wire, mbytes, verifyVars,
                   info, policy, select, derived_key>>

\* report.plat_info()
PlatInfo ==
    /\ decoded.tag = "Ok"
    /\ info' = AttestationReport_plat_info(decoded)
    /\ args' = [call |-> "plat_info"]
    /\ ret' = info'
    /\ UNCHANGED <<raw, call, decoded, wire, mbytes, verifyVars,
                   policy, select, derived_key>>

\* info.smt_enabled() .. info.cypertext_hiding_enabled()
PlatformGet(method) ==
    /\ info # None
    /\ args' = [call |-> method]
    /\ ret' = PlatformInfo_get(info, method)
    /\ UNCHANGED <<raw, call, decoded, wire, mbytes, verifyVars,
                   info, policy, select, derived_key>>

\* info.alias_check_complete()
AliasCheckComplete ==
    /\ info # None
    /\ args' = [call |-> "alias_check_complete"]
    /\ ret' = PlatformInfo_alias_check_complete(info)
    /\ UNCHANGED <<raw, call, decoded, wire, mbytes, verifyVars,
                   info, policy, select, derived_key>>

AccessNext ==
    \/ Decode
    \/ Cpuid
    \/ PlatInfo
    \/ \E method \in DOMAIN PlatformInfo_methods : PlatformGet(method)
    \/ AliasCheckComplete

AccessSpec == AccessInit /\ [][AccessNext]_vars

\* The last call on a value object was the one named.
Called(name) == args # None /\ args.call = name

\* C12: cpuid() on a facade over a V2 report is the UnsupportedField error,
\* whatever bytes the report has where V3 keeps the triple; over a V3 report
\* it is the three bytes stored at offsets 0x188, 0x189 and 0x18A.
C12_CpuidAccessor ==
    Called("cpuid") =>
        IF Discriminant = <<2, 0, 0, 0>>
        THEN ~ret.ok /\ ret.err.kind = "UnsupportedField"
        ELSE ret.ok /\ ret.val = <<raw[393], raw[394], raw[395]>>

C12_Witness ==
    /\ Called("cpuid")
    /\ Discriminant = <<2, 0, 0, 0>>
    /\ raw[393] # 0
    /\ ~ret.ok

\* C13: alias_check_complete() on a V1 wrapper is the UnsupportedField error
\* for every raw value; on a V2 wrapper it is bit 5 of the raw value.
C13_AliasCheckComplete ==
    Called("alias_check_complete") =>
        IF info.tag = "V1"
        THEN ~ret.ok /\ ret.err.kind = "UnsupportedField"
        ELSE ret.ok /\ ret.val = UInt(info.field[5], 64)

C13_Witness ==
    /\ Called("alias_check_complete")
    /\ info.tag = "V1"
    /\ info.field[5] = 1
    /\ ~ret.ok

\* The bit each common method of PlatformInfo reports.
CommonBit ==
    [smt_enabled |-> 0, tsme_enabled |-> 1, ecc_enabled |-> 2,
     rapl_disabled |-> 3, cypertext_hiding_enabled |-> 4]

\* C14: plat_info() wraps the report's 64-bit platform-info value, unchanged,
\* as V1 when the report is V2 and as V2 when it is V3; through either
\* wrapper each of the five common methods returns its bit of that value.
C14_PlatInfoWrapper ==
    info # None =>
        /\ info.tag = (IF Discriminant = <<2, 0, 0, 0>> THEN "V1" ELSE "V2")
        /\ info.field = from_le_bytes(Slice(raw, 64, 8))
        /\ \A method \in DOMAIN CommonBit :
              /\ Called(method) => ret = UInt(info.field[CommonBit[method]], 64)
              /\ PlatformInfo_get(PlatformInfo_V1(info.field), method)
                    = PlatformInfo_get(PlatformInfo_V2(info.field), method)

C14_Witness ==
    /\ info # None
    /\ info.tag = "V2"
    /\ info.field[63] = 1
    /\ Called("cypertext_hiding_enabled")
    /\ ret = UInt(1, 64)

(***************************************************************************)
(* The mutable bit fields.  The caller holds a GuestPolicy or a            *)
(* GuestFieldSelect, made by Default, from a raw integer or by earlier     *)
(* setters, calls setters on it and converts the policy to its integer.    *)
(***************************************************************************)

\* Setter calls in a run.
MaxSets == 1

\* msb, lsb of the ranges of GuestPolicy that have a setter
GuestPolicy_ranges ==
    [abi_minor |-> <<7, 0>>, abi_major |-> <<15, 8>>, smt_allowed |-> <<16, 16>>,
     migrate_ma_allowed |-> <<18, 18>>, debug_allowed |-> <<19, 19>>,
     single_socket_required |-> <<20, 20>>, cxl_allowed |-> <<21, 21>>,
     mem_aes_256_xts |-> <<22, 22>>, rapl_dis |-> <<23, 23>>,
     ciphertext_hiding |-> <<24, 24>>]

\* msb, lsb of the ranges of GuestFieldSelect
GuestFieldSelect_ranges ==
    [get_guest_policy |-> <<0, 0>>, get_image_id |-> <<1, 1>>,
     get_family_id |-> <<2, 2>>, get_measurement |-> <<3, 3>>,
     get_svn |-> <<4, 4>>, get_tcb_version |-> <<5, 5>>]

\* Stored values: Default, all ones, the reserved bit alone, every defined
\* bit but the reserved one, and the two alternating patterns.
PolicyValues ==
    { BitsOf({}), BitsOf(0..63), BitsOf({17}), BitsOf((0..24) \ {17}),
      BitsOf({i \in 0..63 : i % 2 = 0}), BitsOf({i \in 0..63 : i % 2 = 1}) }

SelectValues ==
    { BitsOf({}), BitsOf(0..63), BitsOf({1, 3, 5}), BitsOf({2, 4, 5, 9, 12}) }

\* Values handed to a setter: some fit one bit, some eight, some neither.
SetValues ==
    {UInt(n, 64) : n \in {0, 1, 2, 170, 255, 256, 511}} \cup {BitsOf(0..63)}

BitfieldInit ==
    /\ raw = << >>
    /\ call = "none"
    /\ decoded = None
    /\ wire = None
    /\ mbytes = None
    /\ chain = GoodChain("vcek", "openssl")
    /\ ledger = << >>
    /\ vout = None
    /\ good = None
    /\ flips = 0
    /\ info = None
    /\ derived_key = None
    /\ args = None
    /\ ret = None
    /\ \/ policy \in PolicyValues /\ select = None
       \/ select \in SelectValues /\ policy = None

\* Setter calls made so far.
Sets == IF args = None THEN 0 ELSE args.sets

\* policy.set_<name>(value)
SetPolicy(name, value) ==
    LET r == GuestPolicy_ranges[name] IN
    /\ policy # None
    /\ Sets < MaxSets
    /\ policy' = set_bit_range(policy, r[1], r[2], value)
    /\ args' = [call |-> "set", msb |-> r[1], lsb |-> r[2], value |-> value,
                before |-> policy, sets |-> Sets + 1]
    /\ ret' = policy'
    /\ UNCHANGED <<raw, call, decoded, wire, mbytes, verifyVars,
                   info, select, derived_key>>

\* select.set_<name>(value)
SetSelect(name, value) ==
    LET r == GuestFieldSelect_ranges[name] IN
    /\ select # None
    /\ Sets < MaxSets
    /\ select' = set_bit_range(select, r[1], r[2], value)
    /\ args' = [call |-> "set", msb |-> r[1], lsb |-> r[2], value |-> value,
                before |-> select, sets |-> Sets + 1]
    /\ ret' = select'
    /\ UNCHANGED <<raw, call, decoded, wire, mbytes, verifyVars,
                   info, policy, derived_key>>

\* u64::from(policy)
PolicyIntoU64 ==
    /\ policy # None
    /\ args' = [call |-> "into_u64", sets |-> Sets]
    /\ ret' = GuestPolicy_into_u64(policy)
    /\ UNCHANGED <<raw, call, decoded, wire, mbytes, verifyVars,
                   info, policy, select, derived_key>>

BitfieldNext ==
    \/ \E name \in DOMAIN GuestPolicy_ranges, value \in SetValues :
          SetPolicy(name, value)
    \/ \E name \in DOMAIN GuestFieldSelect_ranges, value \in SetValues :
          SetSelect(name, value)
    \/ PolicyIntoU64

BitfieldSpec == BitfieldInit /\ [][BitfieldNext]_vars

\* C15: the u64 a GuestPolicy converts to has bit 17 set and its 63 other
\* bits equal to the stored ones, whether the policy is the Default, was
\* made from a raw value or went through setters.
C15_PolicyBit17 ==
    Called("into_u64") =>
        /\ ret[17] = 1
        /\ \A i \in (0..63) \ {17} : ret[i] = policy[i]

C15_Witness ==
    /\ Called("into_u64")
    /\ args.sets > 0
    /\ policy[17] = 0
    /\ ret[17] = 1

\* v has no bit set at or above position width.
Fits(v, width) == \A i \in DOMAIN v : i >= width => v[i] = 0

\* C16: after a setter of the range [lsb, msb] was called with a value, the
\* getter of the range returns the value if it fits the width of the range,
\* and every bit outside the range is what it was before the call, also when
\* the value is wider than the range.
C16_SetThenGet ==
    Called("set") =>
        /\ Fits(args.value, args.msb - args.lsb + 1) =>
              bit_range(ret, args.msb, args.lsb) = args.value
        /\ \A i \in 0..63 :
              (i < args.lsb \/ i > args.msb) => ret[i] = args.before[i]

\* An eight-bit range was set to a value one bit wider than it.
C16_Witness ==
    /\ Called("set")
    /\ policy # None
    /\ args.msb = 7
    /\ args.value = UInt(511, 64)
    /\ args.before[8] = 0
    /\ policy[8] = 0

(***************************************************************************)
(* The guest transport value objects (firmware/linux/guest/types.rs).      *)
(***************************************************************************)

MAX_VMPL == 3

\* a > b on unsigned integers of one width
Gt(a, b) ==
    \E i \in DOMAIN a :
        /\ a[i] > b[i]
        /\ \A j \in DOMAIN a : j > i => a[j] = b[j]

Some(v) == [tag |-> "Some", val |-> v]

Zeros(n) == [i \in 1..n |-> 0]

\* #[derive(PartialEq)] on ReportReq: equal field by field.
ReportReq_eq(a, b) ==
    /\ a.report_data = b.report_data
    /\ a.vmpl = b.vmpl
    /\ a["_reserved"] = b["_reserved"]

\* A default request at VMPL 0.
ReportReq_default_vmpl0 ==
    ("_reserved" :> Zeros(28))
    @@ [report_data |-> Zeros(64), vmpl |-> UInt(0, 32)]

\* impl Default for ReportReq
ReportReq_default ==
    ("_reserved" :> Zeros(28))
    @@ [report_data |-> Zeros(64), vmpl |-> UInt(1, 32)]

\* A ReportReq::new that caps the VMPL instead of refusing it.
ReportReq_new_clamped(report_data, vmpl) ==
    LET request == ReportReq_default
        with_data == IF report_data.tag = "Some"
                     THEN [request EXCEPT !.report_data = report_data.val]
                     ELSE request
    IN  IF vmpl.tag = "Some"
        THEN Ok([with_data EXCEPT !.vmpl =
                    IF Gt(vmpl.val, UInt(MAX_VMPL, 32)) THEN UInt(MAX_VMPL, 32)
                    ELSE vmpl.val])
        ELSE Ok(with_data)

\* ReportReq::new
ReportReq_new(report_data, vmpl) ==
    LET request == ReportReq_default
        with_data == IF report_data.tag = "Some"
                     THEN [request EXCEPT !.report_data = report_data.val]
                     ELSE request
    IN  IF vmpl.tag = "Some"
        THEN IF Gt(vmpl.val, UInt(MAX_VMPL, 32)) THEN Err("VmplError")
             ELSE Ok([with_data EXCEPT !.vmpl = vmpl.val])
        ELSE Ok(with_data)

\* An ExtReportReq::new that leaves the certificate address at its default.
ExtReportReq_new_null_address(data) ==
    [data |-> data, certs_address |-> UInt(0, 64), certs_len |-> UInt(0, 32)]

\* ExtReportReq::new
ExtReportReq_new(data) ==
    [data |-> data, certs_address |-> BitNot(UInt(0, 64)), certs_len |-> UInt(0, 32)]

\* #[derive(Default)] for ExtReportReq
ExtReportReq_default ==
    [data |-> ReportReq_default, certs_address |-> UInt(0, 64),
     certs_len |-> UInt(0, 32)]

\* The result of a usize subtraction that would go below zero.
Overflow == [tag |-> "Overflow"]

\* a - b on usize, in a constant expression
usize_sub(a, b) == IF b > a THEN Overflow ELSE [tag |-> "Ok", val |-> a - b]

\* std::mem::size_of::<Array<u8, N>>()
Array_size(n) == n

\* A padding length that leaves report_size out of the sum.
ReportRsp_reserved_1_len_one_word == usize_sub(4000, REPORT_SIZE + 4 + 24)

\* The length of reserved_1: 4000 less the report buffer, the two u32 and
\* reserved_0.
ReportRsp_reserved_1_len == usize_sub(4000, REPORT_SIZE + (4 * 2) + 24)

\* #[repr(C)] struct ReportRsp: size and alignment of each field, in order
ReportRsp_fields ==
    << [name |-> "status", size |-> 4, align |-> 4],
       [name |-> "report_size", size |-> 4, align |-> 4],
       [name |-> "reserved_0", size |-> 24, align |-> 1],
       [name |-> "report", size |-> Array_size(REPORT_SIZE), align |-> 1],
       [name |-> "reserved_1", size |-> ReportRsp_reserved_1_len.val, align |-> 1] >>

AlignUp(n, a) == ((n + a - 1) \div a) * a

RECURSIVE EndOf(_, _)
\* Where the i-th field of a repr(C) struct ends: each field starts at the
\* next multiple of its alignment.
EndOf(fields, i) ==
    IF i = 0 THEN 0
    ELSE AlignUp(EndOf(fields, i - 1), fields[i].align) + fields[i].size

RECURSIVE MaxAlign(_, _)
MaxAlign(fields, i) ==
    IF i = 0 THEN 1
    ELSE IF fields[i].align > MaxAlign(fields, i - 1) THEN fields[i].align
         ELSE MaxAlign(fields, i - 1)

\* std::mem::size_of of a repr(C) struct
size_of(fields) ==
    AlignUp(EndOf(fields, Len(fields)), MaxAlign(fields, Len(fields)))

\* impl Default for ReportRsp
ReportRsp_default ==
    [status |-> UInt(0, 32), report_size |-> UInt(0, 32),
     reserved_0 |-> Zeros(24), report |-> Zeros(REPORT_SIZE),
     reserved_1 |-> Zeros(ReportRsp_reserved_1_len.val)]

\* DerivedKey::new
DerivedKey_new(root_key_select, guest_field_select, vmpl, guest_svn, tcb_version) ==
    ("_reserved_0" :> UInt(0, 32))
    @@ [root_key_select |-> UInt(IF root_key_select THEN 1 ELSE 0, 32),
        guest_field_select |-> guest_field_select,
        vmpl |-> vmpl,
        guest_svn |-> guest_svn,
        tcb_version |-> tcb_version]

\* DerivedKey::get_root_key_select
get_root_key_select(self) == self.root_key_select

\* Option::unwrap_or
unwrap_or(opt, default) == IF opt.tag = "Some" THEN opt.val ELSE default

\* A field access the struct has no field for: the expression has no value.
NoSuchField(name) == [tag |-> "NoSuchField", field |-> name]

\* impl From<DerivedKey> for DerivedKeyReq
DerivedKeyReq_from(value) ==
    IF "launch_mit_vector" \notin DOMAIN value THEN NoSuchField("launch_mit_vector")
    ELSE [tag |-> "Ok",
          req |-> [root_key_select |-> get_root_key_select(value),
                   reserved_0 |-> UInt(0, 32),
                   guest_field_select |-> value.guest_field_select,
                   vmpl |-> value.vmpl,
                   guest_svn |-> value.guest_svn,
                   tcb_version |-> value.tcb_version,
                   launch_mit_vector |->
                       unwrap_or(value.launch_mit_vector, UInt(0, 64))]]

\* impl From<&mut DerivedKey> for DerivedKeyReq
DerivedKeyReq_from_mut(value) ==
    IF "launch_mit_vector" \notin DOMAIN value THEN NoSuchField("launch_mit_vector")
    ELSE [tag |-> "Ok",
          req |-> [root_key_select |-> get_root_key_select(value),
                   reserved_0 |-> UInt(0, 32),
                   guest_field_select |-> value.guest_field_select,
                   vmpl |-> value.vmpl,
                   guest_svn |-> value.guest_svn,
                   tcb_version |-> value.tcb_version,
                   launch_mit_vector |->
                       unwrap_or(value.launch_mit_vector, UInt(0, 64))]]

(***************************************************************************)
(* A guest builds requests: report requests with and without report data   *)
(* and VMPL, extended requests around them, an empty response buffer, and  *)
(* derived-key requests out of a DerivedKey.                               *)
(***************************************************************************)

\* The VMPLs tried are 0..MaxVmpl and some large ones.
MaxVmpl == 5

VmplValues ==
    {UInt(n, 32) : n \in 0..MaxVmpl}
    \cup { Shl(UInt(1, 32), 8), Shl(UInt(1, 32), 31), Shl(UInt(3, 32), 30),
           BitNot(UInt(0, 32)) }

ReportDataValues == { Zeros(64), [i \in 1..64 |-> 42], [i \in 1..64 |-> i] }

RequestInit ==
    /\ raw = << >>
    /\ call = "none"
    /\ decoded = None
    /\ wire = None
    /\ mbytes = None
    /\ chain = GoodChain("vcek", "openssl")
    /\ ledger = << >>
    /\ vout = None
    /\ good = None
    /\ flips = 0
    /\ GuestIdle

\* ReportReq::new(report_data, vmpl)
NewReportReq(report_data, vmpl) ==
    /\ args' = [call |-> "ReportReq::new", report_data |-> report_data,
                vmpl |-> vmpl]
    /\ ret' = ReportReq_new(report_data, vmpl)
    /\ UNCHANGED <<raw, call, decoded, wire, mbytes, verifyVars,
                   info, policy, select, derived_key>>

\* ReportReq::default()
DefaultReportReq ==
    /\ args' = [call |-> "ReportReq::default"]
    /\ ret' = Ok(ReportReq_default)
    /\ UNCHANGED <<raw, call, decoded, wire, mbytes, verifyVars,
                   info, policy, select, derived_key>>

\* ExtReportReq::new(&request), for the request the last call returned
NewExtReportReq ==
    /\ args # None
    /\ args.call \in {"ReportReq::new", "ReportReq::default"}
    /\ ret.ok
    /\ args' = [call |-> "ExtReportReq::new", data |-> ret.val]
    /\ ret' = ExtReportReq_new(ret.val)
    /\ UNCHANGED <<raw, call, decoded, wire, mbytes, verifyVars,
                   info, policy, select, derived_key>>

\* ExtReportReq::default()
DefaultExtReportReq ==
    /\ args' = [call |-> "ExtReportReq::default"]
    /\ ret' = ExtReportReq_default
    /\ UNCHANGED <<raw, call, decoded, wire, mbytes, verifyVars,
                   info, policy, select, derived_key>>

\* ReportRsp::default()
DefaultReportRsp ==
    /\ args' = [call |-> "ReportRsp::default"]
    /\ ret' = ReportRsp_default
    /\ UNCHANGED <<raw, call, decoded, wire, mbytes, verifyVars,
                   info, policy, select, derived_key>>

\* DerivedKey::new(root_key_select, guest_field_select, vmpl, guest_svn,
\* tcb_version)
NewDerivedKey(root_key_select, guest_field_select, vmpl, guest_svn, tcb_version) ==
    /\ derived_key' = DerivedKey_new(root_key_select, guest_field_select,
                                     vmpl, guest_svn, tcb_version)
    /\ args' = [call |-> "DerivedKey::new"]
    /\ ret' = derived_key'
    /\ UNCHANGED <<raw, call, decoded, wire, mbytes, verifyVars,
                   info, policy, select>>

\* DerivedKeyReq::from(derived_key); DerivedKey is Copy, the caller keeps it
IntoDerivedKeyReq ==
    /\ derived_key # None
    /\ args' = [call |-> "DerivedKeyReq::from", value |-> derived_key]
    /\ ret' = DerivedKeyReq_from(derived_key)
    /\ UNCHANGED <<raw, call, decoded, wire, mbytes, verifyVars,
                   info, policy, select, derived_key>>

\* DerivedKeyReq::from(&mut derived_key)
IntoDerivedKeyReqMut ==
    /\ derived_key # None
    /\ args' = [call |-> "DerivedKeyReq::from(&mut)", value |-> derived_key]
    /\ ret' = DerivedKeyReq_from_mut(derived_key)
    /\ derived_key' = derived_key
    /\ UNCHANGED <<raw, call, decoded, wire, mbytes, verifyVars,
                   info, policy, select>>

RequestNext ==
    \/ \E report_data \in {None} \cup {Some(d) : d \in ReportDataValues},
          vmpl \in {None} \cup {Some(v) : v \in VmplValues} :
          NewReportReq(report_data, vmpl)
    \/ DefaultReportReq
    \/ NewExtReportReq
    \/ DefaultExtReportReq
    \/ DefaultReportRsp
    \/ \E root_key_select \in BOOLEAN,
          guest_field_select \in {BitsOf({}), UInt(4660, 64), BitsOf(0..63)},
          vmpl \in {UInt(0, 32), UInt(2, 32)},
          guest_svn \in {UInt(1, 32), BitNot(UInt(0, 32))},
          tcb_version \in {UInt(100, 64), BitNot(UInt(0, 64))} :
          NewDerivedKey(root_key_select, guest_field_select, vmpl, guest_svn,
                        tcb_version)
    \/ IntoDerivedKeyReq
    \/ IntoDerivedKeyReqMut

RequestSpec == RequestInit /\ [][RequestNext]_vars

\* C17: ReportReq::new with a VMPL succeeds exactly when the VMPL is one of
\* 0, 1, 2, 3, and the request then stores that VMPL; with any larger VMPL,
\* up to u32::MAX, it returns the VMPL error and no request.
C17_VmplRange ==
    (Called("ReportReq::new") /\ args.vmpl.tag = "Some") =>
        IF args.vmpl.val \in {UInt(n, 32) : n \in 0..3}
        THEN ret.ok /\ ret.val.vmpl = args.vmpl.val
        ELSE ret = Err("VmplError")

C17_Witness ==
    /\ Called("ReportReq::new")
    /\ args.vmpl = Some(BitNot(UInt(0, 32)))
    /\ args.report_data.tag = "Some"
    /\ ret = Err("VmplError")

C19_ReportRspSize ==
    Called("ReportRsp::default") =>
        /\ ReportRsp_reserved_1_len.tag = "Ok"
        /\ Len(ret.reserved_0) = 24
        /\ Len(ret.report) = 1184
        /\ Len(ret.reserved_1) = 2784
        /\ 4 + 4 + Len(ret.reserved_0) + Len(ret.report) + Len(ret.reserved_1) = 4000
        /\ size_of(ReportRsp_fields) = 4000

C19_Witness ==
    /\ Called("ReportRsp::default")
    /\ Len(ret.reserved_1) > 0
    /\ EndOf(ReportRsp_fields, 4) = 1216

\* C20: the DerivedKeyReq made from a DerivedKey carries its root_key_select,
\* guest_field_select bits, vmpl, guest_svn and tcb_version, a reserved word
\* of 0 and, as launch_mit_vector, the value supplied to the DerivedKey or 0
\* when none was; both conversions give the same request and the one by
\* mutable reference leaves the DerivedKey as it was.
C20_DerivedKeyConversion ==
    (Called("DerivedKeyReq::from") \/ Called("DerivedKeyReq::from(&mut)")) =>
        /\ ret.tag = "Ok"
        /\ ret.req.root_key_select = args.value.root_key_select
        /\ ret.req.guest_field_select = args.value.guest_field_select
        /\ ret.req.vmpl = args.value.vmpl
        /\ ret.req.guest_svn = args.value.guest_svn
        /\ ret.req.tcb_version = args.value.tcb_version
        /\ ret.req.reserved_0 = UInt(0, 32)
        /\ ret.req.launch_mit_vector =
              (IF "launch_mit_vector" \in DOMAIN args.value
                  /\ args.value.launch_mit_vector.tag = "Some"
               THEN args.value.launch_mit_vector.val
               ELSE UInt(0, 64))
        /\ DerivedKeyReq_from(args.value) = DerivedKeyReq_from_mut(args.value)
        /\ derived_key = args.value

\* The fields V3 has where V2 has its 24 reserved bytes.
CpuidFields == {"cpuid_fam_id", "cpuid_mod_id", "cpuid_step"}

FieldOffset(layout, name) == OffsetOf(layout, FieldIndex(layout, name))

FieldSize(layout, name) == layout[FieldIndex(layout, name)].size

\* C21: V3 has every field of V2 at the same offset with the same width,
\* except that the 24 reserved bytes of V2 at 0x188 hold the three CPUID bytes
\* and 21 reserved bytes in V3; the signature starts at 0x2A0 in both and
\* both serialize to 1184 bytes, the size of the transport report buffer.
C21_LayoutsAgree ==
    /\ FieldNames(LayoutV3) = FieldNames(LayoutV2) \cup CpuidFields
    /\ CpuidFields \cap FieldNames(LayoutV2) = {}
    /\ \A name \in FieldNames(LayoutV2) \ {"_reserved_1"} :
          /\ FieldOffset(LayoutV3, name) = FieldOffset(LayoutV2, name)
          /\ FieldSize(LayoutV3, name) = FieldSize(LayoutV2, name)
    /\ FieldSize(LayoutV2, "_reserved_1") = 24
    /\ FieldOffset(LayoutV3, "cpuid_fam_id") = FieldOffset(LayoutV2, "_reserved_1")
    /\ FieldOffset(LayoutV3, "cpuid_mod_id") = FieldOffset(LayoutV2, "_reserved_1") + 1
    /\ FieldOffset(LayoutV3, "cpuid_step") = FieldOffset(LayoutV2, "_reserved_1") + 2
    /\ FieldOffset(LayoutV3, "_reserved_1") = FieldOffset(LayoutV2, "_reserved_1") + 3
    /\ FieldSize(LayoutV3, "_reserved_1") = 21
    /\ FieldOffset(LayoutV2, "signature") = 672
    /\ FieldOffset(LayoutV3, "signature") = 672
    /\ (wire # None /\ wire.tag = "Ok") =>
          /\ Len(wire.bytes) = 1184
          /\ Len(wire.bytes) = REPORT_SIZE

C21_Witness ==
    /\ wire # None
    /\ wire.tag = "Ok"
    /\ decoded.variant = "V3"
    /\ call = "AttestationReport"
    /\ Len(wire.bytes) = 1184

(***************************************************************************)
(* The facade over a decoded slice: the caller decodes a full-size slice   *)
(* with any discriminant and calls the accessors both versions answer.     *)
(***************************************************************************)

FacadeInit ==
    /\ raw \in {MakeInput(p, d, REPORT_SIZE) : p \in 0..MaxPattern, d \in Discriminants}
    /\ call = "none"
    /\ decoded = None
    /\ wire = None
    /\ mbytes = None
    /\ chain = GoodChain("vcek", "openssl")
    /\ ledger = << >>
    /\ vout = None
    /\ good = None
    /\ flips = 0
    /\ GuestIdle

\* report.version() .. report.launch_tcb()
Access(method) ==
    /\ decoded.tag = "Ok"
    /\ args' = [call |-> method]
    /\ ret' = AttestationReport_get(decoded, method)
    /\ UNCHANGED <<raw, call, decoded, wire, mbytes, verifyVars,
                   info, policy, select, derived_key>>

\* report.current_version()
CurrentVersion ==
    /\ decoded.tag = "Ok"
    /\ args' = [call |-> "current_version"]
    /\ ret' = AttestationReport_current_version(decoded)
    /\ UNCHANGED <<raw, call, decoded, wire, mbytes, verifyVars,
                   info, policy, select, derived_key>>

\* report.commited_version()
CommitedVersion ==
    /\ decoded.tag = "Ok"
    /\ args' = [call |-> "commited_version"]
    /\ ret' = AttestationReport_commited_version(decoded)
    /\ UNCHANGED <<raw, call, decoded, wire, mbytes, verifyVars,
                   info, policy, select, derived_key>>

FacadeNext ==
    \/ Decode
    \/ \E method \in DOMAIN AttestationReport_accessors : Access(method)
    \/ CurrentVersion
    \/ CommitedVersion

FacadeSpec == FacadeInit /\ [][FacadeNext]_vars

\* The slice of the other version: the discriminant is the other of 2 and 3
\* and the three bytes at the CPUID offsets are different ones.
Twin(bytes) ==
    [i \in 1..Len(bytes) |->
        IF i = 1 THEN 5 - bytes[1]
        ELSE IF i \in 393..395 THEN (bytes[i] + 17) % 256
        ELSE bytes[i]]

\* What the wire holds for a field of the V2 layout.
Stored(bytes, name) ==
    LET i == FieldIndex(LayoutV2, name) IN
    DecodeField(LayoutV2[i].kind,
                Slice(bytes, OffsetOf(LayoutV2, i), LayoutV2[i].size))

\* C22: each accessor of a field both versions have returns that field of
\* the wrapped report on either arm, so the report decoded from the slice of
\* the other version (other discriminant, other bytes at the CPUID offsets)
\* answers every such accessor alike, version() apart, which returns the
\* discriminant; current_version() and commited_version() return (major,
\* minor, build), the wire holding build, minor, major.
C22_CommonAccessors ==
    LET twin == AttestationReport_try_from(Twin(raw)) IN
    /\ \A method \in DOMAIN AttestationReport_accessors :
          Called(method) =>
              /\ ret = Stored(raw, AttestationReport_accessors[method])
              /\ method # "version" =>
                    (twin.tag = "Ok" /\ AttestationReport_get(twin, method) = ret)
    /\ Called("current_version") =>
          /\ ret = <<raw[491], raw[490], raw[489]>>
          /\ AttestationReport_current_version(twin) = ret
    /\ Called("commited_version") =>
          /\ ret = <<raw[495], raw[494], raw[493]>>
          /\ AttestationReport_commited_version(twin) = ret

C22_Witness ==
    /\ Called("current_version")
    /\ decoded.variant = "V3"
    /\ ret[1] # ret[3]
    /\ AttestationReport_try_from(Twin(raw)).variant = "V2"

WirePolicyBit17(bytes) == (bytes[11] \div 2) % 2

\* C23 as stated: in the serialization of every report, bit 17 of the
\* guest-policy field (byte offset 8) is 1, whatever policy the report stores.
C23_WireBit17 ==
    (wire # None /\ wire.tag = "Ok") => WirePolicyBit17(wire.bytes) = 1

\* C23, amended: the serialization of a report holds the stored guest-policy
\* value unchanged at byte offset 8, bit 17 included, so bit 17 is 1 on the
\* wire exactly when it is 1 in the decoded slice; it is the conversion of
\* the policy to u64 that sets bit 17 whatever is stored.
C23_WirePolicyAsStored ==
    (wire # None /\ wire.tag = "Ok") =>
        /\ Slice(wire.bytes, 8, 8) = to_le_bytes(decoded.report.policy, 8)
        /\ Slice(wire.bytes, 8, 8) = Slice(raw, 8, 8)
        /\ WirePolicyBit17(wire.bytes) = decoded.report.policy[17]
        /\ GuestPolicy_into_u64(decoded.report.policy)[17] = 1

C23_Witness ==
    /\ wire # None
    /\ wire.tag = "Ok"
    /\ decoded.facade
    /\ WirePolicyBit17(wire.bytes) = 0
    /\ wire.bytes[16] # 0

\* A step that is a call of verify: the first on a pair, or one made again.
VerifyStep == vout' # None /\ (vout = None \/ args' # args)

C25_ReportReqNew ==
    (Called("ReportReq::new") /\ ret.ok) =>
        /\ DOMAIN ret.val = {"report_data", "vmpl", "_reserved"}
        /\ ret.val.report_data =
              IF args.report_data.tag = "Some" THEN args.report_data.val
              ELSE Zeros(64)
        /\ ret.val.vmpl =
              IF args.vmpl.tag = "Some" THEN args.vmpl.val ELSE UInt(1, 32)
        /\ ret.val["_reserved"] = Zeros(28)
        /\ \A n \in 0..MAX_VMPL :
              LET other == ReportReq_new(args.report_data, Some(UInt(n, 32))) IN
              /\ other.ok
              /\ ReportReq_eq(other.val, ret.val) <=> UInt(n, 32) = ret.val.vmpl

\* a request made with neither report data nor VMPL
C25_Witness ==
    /\ Called("ReportReq::new")
    /\ args.report_data = None
    /\ args.vmpl = None
    /\ ret.ok
    /\ ~ReportReq_eq(ret.val, ReportReq_new(None, Some(UInt(0, 32))).val)

\* The chains of the build in use with any combination of a chain that does
\* not validate, a key that does not parse and a primitive that fails.
FaultChains ==
    [valid : BOOLEAN, vcek : {chain.vcek}, key_ok : BOOLEAN,
     primitive_ok : BOOLEAN, feature : {chain.feature}]

\* The steps of verify in the order they are taken.
StepOrder == <<"chain", "signature", "hash", "key", "ecdsa">>

\* Whether a step fails for the report in raw verified against c.
StepFails(c, step) ==
    CASE step = "chain" -> ~c.valid
      [] step = "signature" -> ~EcdsaSig_try_from(decoded.report.signature).ok
      [] step = "hash" -> FALSE
      [] step = "key" -> ~c.key_ok
      [] step = "ecdsa" ->
            \/ ~c.primitive_ok
            \/ ~ecdsa_verify(decoded.report.signature,
                             Sha384(Slice(raw, 0, MEASURABLE_LEN)), c.vcek)

\* The error a step fails with.
StepError(c, step) ==
    CASE step = "chain" -> "ChainError"
      [] step = "signature" -> "MalformedSignature"
      [] step = "hash" -> "SerializeError"
      [] step = "key" -> "MalformedKey"
      [] step = "ecdsa" ->
            IF c.feature = "openssl" /\ ~c.primitive_ok THEN "PrimitiveError"
            ELSE "SignatureInvalid"

\* The first step that fails, 0 if none does.
FirstFailure(c) ==
    LET failing == {k \in 1..Len(StepOrder) : StepFails(c, StepOrder[k])}
    IN  IF failing = {} THEN 0
        ELSE CHOOSE k \in failing : \A j \in failing : k <= j

\* What a verify that takes the steps in order and stops at the first
\* failure returns: that step's error, and the digest if the hash was taken.
InOrder(c, k) ==
    IF k = 0 THEN Verdict("Ok", "", Sha384(Slice(raw, 0, MEASURABLE_LEN)))
    ELSE Verdict("Err", StepError(c, StepOrder[k]),
                 IF k > 3 THEN Sha384(Slice(raw, 0, MEASURABLE_LEN)) ELSE None)

\* C26: the steps of verify run in a fixed order and stop at the first
\* failure: chain validation, signature parsing, measurable bytes and hash,
\* public key, ECDSA check.  Whatever else is wrong with chain or report, the
\* error returned is that of the first failing step, and the report has
\* been hashed exactly when chain validation and signature parsing passed.
C26_StepOrder ==
    (vout # None /\ decoded.tag = "Ok") =>
        /\ chain \in FaultChains
        /\ \A c \in FaultChains : verify(c, decoded) = InOrder(c, FirstFailure(c))

\* a report whose signature no longer parses and whose measurable bytes no
\* longer carry a signature: against a chain that does not validate it fails
\* on the chain, against one whose key does not parse on the signature
C26_Witness ==
    /\ vout # None
    /\ good # None
    /\ vout = Verdict("Err", "MalformedSignature", None)
    /\ \E c \in FaultChains :
          /\ ~c.valid
          /\ ~c.key_ok
          /\ ~c.primitive_ok
          /\ verify(c, decoded) = Verdict("Err", "ChainError", None)
    /\ verify([chain EXCEPT !.key_ok = FALSE], decoded).err = "MalformedSignature"

(***************************************************************************)
(* Building a policy or a field selection: the caller starts from Default  *)
(* and calls the public setters any number of times, in any order, and may *)
(* convert the policy to u64 at any point.                                 *)
(***************************************************************************)

\* Values handed to a setter: 0, 1, one that fits eight bits but not one,
\* and all ones.
SetterValues ==
    {UInt(n, 64) : n \in {0, 1, 255}} \cup {BitsOf(0..63)}

\* GuestPolicy::default() or GuestFieldSelect::default()
SetterInit ==
    /\ raw = << >>
    /\ call = "none"
    /\ decoded = None
    /\ wire = None
    /\ mbytes = None
    /\ chain = GoodChain("vcek", "openssl")
    /\ ledger = << >>
    /\ vout = None
    /\ good = None
    /\ flips = 0
    /\ info = None
    /\ derived_key = None
    /\ args = None
    /\ ret = None
    /\ \/ policy = UInt(0, 64) /\ select = None
       \/ policy = None /\ select = UInt(0, 64)

\* policy.set_<name>(value), any number of times
PolicySet(name, value) ==
    LET r == GuestPolicy_ranges[name] IN
    /\ policy # None
    /\ policy' = set_bit_range(policy, r[1], r[2], value)
    /\ args' = None
    /\ ret' = None
    /\ UNCHANGED <<raw, call, decoded, wire, mbytes, verifyVars,
                   info, select, derived_key>>

\* select.set_<name>(value), any number of times
SelectSet(name, value) ==
    LET r == GuestFieldSelect_ranges[name] IN
    /\ select # None
    /\ select' = set_bit_range(select, r[1], r[2], value)
    /\ args' = None
    /\ ret' = None
    /\ UNCHANGED <<raw, call, decoded, wire, mbytes, verifyVars,
                   info, policy, derived_key>>

SetterNext ==
    \/ \E name \in DOMAIN GuestPolicy_ranges, value \in SetterValues :
          PolicySet(name, value)
    \/ \E name \in DOMAIN GuestFieldSelect_ranges, value \in SetterValues :
          SelectSet(name, value)
    \/ PolicyIntoU64

SetterSpec == SetterInit /\ [][SetterNext]_vars

\* C28: starting from Default, after any sequence of setter calls a
\* GuestPolicy stores 0 in bit 17 and in bits 25 to 63 and a GuestFieldSelect
\* stores 0 in bits 6 to 63; the u64 such a policy converts to has bit 17 set
\* and bits 25 to 63 clear.
C28_ReservedBitsStayZero ==
    /\ policy # None =>
          /\ policy[17] = 0
          /\ \A i \in 25..63 : policy[i] = 0
    /\ select # None => \A i \in 6..63 : select[i] = 0
    /\ Called("into_u64") =>
          /\ ret[17] = 1
          /\ \A i \in 25..63 : ret[i] = 0

\* a policy with every defined bit set by setters, converted to u64
C28_Witness ==
    /\ Called("into_u64")
    /\ \A i \in (0..24) \ {17} : policy[i] = 1
    /\ policy[17] = 0
    /\ ret[17] = 1

====
